---- MODULE Spec2Model ----
(***************************************************************************)
(* A model of lettersmith: the document helpers of lettersmith/doc.py, the *)
(* wikilink subsystem of lettersmith/wikilink.py and the build pipeline of *)
(* lettersmith/bin/site.py.                                                *)
(*                                                                         *)
(* Text is a sequence of one-character strings (markup emitted by a        *)
(* template is kept as one token).  A document or a stub is a function     *)
(* from field names to values, so that a field can be absent.              *)
(*                                                                         *)
(* Four specifications share the module:                                   *)
(*   SpecRender  doc_renderer applied to bounded stub collections/contents *)
(*   SpecLinks   index_links / index_backlinks on bounded stub collections *)
(*   SpecReload  rm_content / reload_content / decorate / to_li on a doc   *)
(*   Spec        one run of main() of bin/site.py                          *)
(***************************************************************************)
EXTENDS Naturals, Sequences, FiniteSets, TLC

VARIABLES
    \* ---- SpecRender
    r_stubs, r_base, r_segs, r_doc, r_out, r_done,
    \* ---- SpecLinks
    l_stubs, l_fwd, l_back, l_done,
    \* ---- SpecReload
    d_doc, d_prev, d_op, d_reads, d_steps,
    \* ---- Spec (main)
    pc, config, config0, files, prog, hist, docs, stubs, idx, seen,
    synth, out, stats, copy_err, printed, status

rvars == <<r_stubs, r_base, r_segs, r_doc, r_out, r_done>>
lvars == <<l_stubs, l_fwd, l_back, l_done>>
dvars == <<d_doc, d_prev, d_op, d_reads, d_steps>>
mvars == <<pc, config, config0, files, prog, hist, docs, stubs, idx, seen,
           synth, out, stats, copy_err, printed, status>>
vars == <<rvars, lvars, dvars, mvars>>

(***************************************************************************)
(* Bounds of the model.                                                    *)
(***************************************************************************)
MaxStubs == 3
MaxSegs == 3
MaxFiles == 2
MaxOps == 3

(***************************************************************************)
(* Generic helpers on sequences and finite functions.                      *)
(***************************************************************************)
RECURSIVE Flat(_)
Flat(ss) == IF ss = <<>> THEN <<>> ELSE Head(ss) \o Flat(Tail(ss))

RECURSIVE Count(_, _)
Count(s, x) ==
    IF s = <<>> THEN 0
    ELSE (IF Head(s) = x THEN 1 ELSE 0) + Count(Tail(s), x)

Range(s) == {s[i] : i \in 1..Len(s)}

RECURSIVE SetToSeq(_)
SetToSeq(S) ==
    IF S = {} THEN <<>>
    ELSE LET x == CHOOSE y \in S : TRUE IN <<x>> \o SetToSeq(S \ {x})

\* s occurs in t as a contiguous run
Occurs(s, t) ==
    \E i \in 0..(Len(t) - Len(s)) : SubSeq(t, i + 1, i + Len(s)) = s

Empty == [x \in {} |-> <<>>]

\* dict.get(key, default)
Get(d, k, default) == IF k \in DOMAIN d THEN d[k] ELSE default

(***************************************************************************)
(* lettersmith.util (not among the sources): non-mutating record helpers.  *)
(***************************************************************************)
put(d, k, v) == [x \in (DOMAIN d) \cup {k} |-> IF x = k THEN v ELSE d[x]]

merge(d, p) ==
    [x \in (DOMAIN d) \cup (DOMAIN p) |-> IF x \in DOMAIN p THEN p[x] ELSE d[x]]

unset(d, keys) == [x \in (DOMAIN d) \ keys |-> d[x]]

pick(d, keys) == [x \in (DOMAIN d) \cap keys |-> d[x]]

replace_content(doc, c) == [doc EXCEPT !["content"] = c]

(***************************************************************************)
(* lettersmith.path (not among the sources).                               *)
(***************************************************************************)
Lower(c) ==
    CASE c = "A" -> "a" [] c = "B" -> "b" [] c = "C" -> "c" [] c = "D" -> "d"
      [] OTHER -> c

RECURSIVE LStrip(_)
LStrip(s) == IF s # <<>> /\ Head(s) = " " THEN LStrip(Tail(s)) ELSE s

RECURSIVE RStrip(_)
RStrip(s) ==
    IF s # <<>> /\ s[Len(s)] = " " THEN RStrip(SubSeq(s, 1, Len(s) - 1)) ELSE s

Strip(s) == LStrip(RStrip(s))

to_slug(s) ==
    LET t == Strip(s)
    IN  [i \in 1..Len(t) |-> IF t[i] = " " THEN "-" ELSE Lower(t[i])]

\* base joined to the output path with exactly one slash between them
to_url(output_path, base) ==
    (IF base # <<>> /\ base[Len(base)] = "/"
        THEN SubSeq(base, 1, Len(base) - 1) ELSE base) \o <<"/">> \o output_path

\* "name.md" -> "name/index.html"
to_nice_path(simple_path) ==
    <<simple_path[1], "/", "index", ".html">>

Upper(c) ==
    CASE c = "a" -> "A" [] c = "b" -> "B" [] c = "c" -> "C" [] c = "d" -> "D"
      [] OTHER -> c

\* the file name stem, title-cased
to_title(path) == <<Upper(path[1])>>

\* top level directory of a path: the model's content files all sit at the root
tld(simple_path) == <<>>

(***************************************************************************)
(* The content files on disk.  A file is a front matter header (key/value  *)
(* lines between two "---" lines, possibly missing) followed by the body.  *)
(* frontmatter.parse splits the raw text into (meta, content).             *)
(***************************************************************************)
FileDefs ==
    [a |-> [meta |-> [title |-> <<"A">>], body |-> <<"[", "[", "B", "]", "]">>],
     b |-> [meta |-> Empty, body |-> <<"h", "i">>],
     c |-> [meta |-> [title |-> <<"C">>, summary |-> <<"s">>], body |-> <<>>],
     d |-> [meta |-> [title |-> <<"D">>],
            body |-> <<"href=\"/", "i", "[", "[", "x", "]", "]">>]]

RECURSIVE HeaderLines(_)
HeaderLines(kvs) ==
    IF kvs = <<>> THEN <<>>
    ELSE <<Head(kvs)[1], ":">> \o Head(kvs)[2] \o <<"\n">> \o HeaderLines(Tail(kvs))

RawOf(def) ==
    (IF DOMAIN def.meta = {} THEN <<>>
     ELSE <<"---">>
            \o HeaderLines(SetToSeq({<<k, def.meta[k]>> : k \in DOMAIN def.meta}))
            \o <<"---">>)
    \o def.body

\* the text of the file at a path (a path is the file's name and suffix)
ReadFile(input_path) == RawOf(FileDefs[input_path[1]])

\* the first index from i on that holds token t, or 0
RECURSIVE IndexOf(_, _, _)
IndexOf(raw, t, i) ==
    IF i > Len(raw) THEN 0 ELSE IF raw[i] = t THEN i ELSE IndexOf(raw, t, i + 1)

RECURSIVE ParseHeader(_, _)
ParseHeader(lines, acc) ==
    IF lines = <<>> THEN acc
    ELSE LET e == IndexOf(lines, "\n", 1)
         IN  ParseHeader(SubSeq(lines, e + 1, Len(lines)),
                         put(acc, lines[1], SubSeq(lines, 3, e - 1)))

frontmatter_parse(raw) ==
    LET e == IF raw # <<>> /\ raw[1] = "---" THEN IndexOf(raw, "---", 2) ELSE 0
    IN  IF e = 0 THEN [meta |-> Empty, content |-> raw]
        ELSE [meta |-> ParseHeader(SubSeq(raw, 2, e - 1), Empty),
              content |-> SubSeq(raw, e + 1, Len(raw))]

(***************************************************************************)
(* lettersmith/doc.py                                                      *)
(***************************************************************************)
load(input_path) ==
    LET parsed == frontmatter_parse(ReadFile(input_path))
    IN  [file_created_time |-> "ctime", file_modified_time |-> "mtime",
         input_path |-> input_path, simple_path |-> input_path,
         output_path |-> to_nice_path(input_path),
         meta |-> parsed.meta, content |-> parsed.content]

rm_content(doc) == unset(doc, {"content"})

\* doc.get("content") is truthy: the field is there and not empty
HasContent(doc) == "content" \in DOMAIN doc /\ doc["content"] # <<>>

reload_content_ifmissing(doc) ==
    IF "content" \in DOMAIN doc THEN doc
    ELSE IF "input_path" \in DOMAIN doc
         THEN put(doc, "content", frontmatter_parse(ReadFile(doc["input_path"])).content)
         ELSE put(doc, "content", <<>>)

reload_content(doc) ==
    IF HasContent(doc) THEN doc
    ELSE IF "input_path" \in DOMAIN doc
         THEN put(doc, "content", frontmatter_parse(ReadFile(doc["input_path"])).content)
         ELSE put(doc, "content", <<>>)

\* how many times reload_content opens the source file
reload_reads(doc) ==
    IF ~HasContent(doc) /\ "input_path" \in DOMAIN doc THEN 1 ELSE 0

\* strip_html and truncate (lettersmith.stringtools) on the model's short texts
strip_html(text) == SelectSeq(text, LAMBDA c : c \notin {"<p>", "</p>"})

read_summary(doc) ==
    IF "summary" \in DOMAIN doc["meta"] THEN doc["meta"]["summary"]
    ELSE strip_html(Get(doc, "content", <<>>))

read_title(doc) ==
    IF "title" \in DOMAIN doc["meta"] THEN doc["meta"]["title"]
    ELSE to_title(doc["input_path"])

read_date(doc) ==
    IF "date" \in DOMAIN doc["meta"] THEN doc["meta"]["date"]
    ELSE Get(doc, "file_created_time", "EPOCH")

read_modified(doc) ==
    IF "modified" \in DOMAIN doc["meta"] THEN doc["meta"]["modified"]
    ELSE Get(doc, "file_modified_time", "EPOCH")

decorate_smart_items(doc) ==
    merge(doc, [title |-> read_title(doc), summary |-> read_summary(doc),
                section |-> tld(doc["simple_path"]), date |-> read_date(doc),
                modified |-> read_modified(doc)])

LI_KEYS ==
    {"title", "date", "modified", "file_created_time", "file_modified_time",
     "simple_path", "output_path", "section", "meta", "summary"}

to_li(doc) == pick(doc, LI_KEYS)

\* PurePath(output_path).with_suffix(ext)
change_ext(doc, ext) ==
    LET p == doc["output_path"]
    IN  [doc EXCEPT !["output_path"] = SubSeq(p, 1, Len(p) - 1) \o <<ext>>]

(***************************************************************************)
(* Attribute reads on a stub.  wikilink.py and site.py read stub.id_path,  *)
(* stub.title, stub.output_path and stub.meta; the Stub type itself        *)
(* (lettersmith.stub) is not among the sources.  A stub that carries the   *)
(* field yields it; otherwise id_path is derived from simple_path and the  *)
(* title is the declared header title or the one derived from the file     *)
(* name, as read_title derives it.                                         *)
(***************************************************************************)
StubIdPath(stub) ==
    IF "id_path" \in DOMAIN stub THEN stub["id_path"] ELSE stub["simple_path"]

StubTitle(stub) ==
    IF "title" \in DOMAIN stub THEN stub["title"]
    ELSE IF "title" \in DOMAIN stub["meta"] THEN stub["meta"]["title"]
    ELSE to_title(stub["simple_path"])

(***************************************************************************)
(* lettersmith/wikilink.py                                                 *)
(***************************************************************************)
LINK_TEMPLATE(url, text) ==
    <<"<a href=\"">> \o url \o <<"\" class=\"wikilink\">">> \o text \o <<"</a>">>

NOLINK_TEMPLATE(text) ==
    <<"<span class=\"nolink\">">> \o text \o <<"</span>">>

\* The stub a dict comprehension keeps under a key: the last one with it.
LastWith(ss, P(_)) ==
    ss[CHOOSE i \in 1..Len(ss) :
          P(ss[i]) /\ \A j \in (i + 1)..Len(ss) : ~P(ss[j])]

index_slug_to_url(ss, base_url) ==
    [slug \in {to_slug(StubTitle(ss[i])) : i \in 1..Len(ss)} |->
        LET hit(s) == to_slug(StubTitle(s)) = slug
        IN  to_url(LastWith(ss, hit)["output_path"], base_url)]

\* WIKILINK = \[\[([^\]]+)\]\] tried at position i: the index of the last
\* character of the match, or 0 when the pattern does not match there.
RECURSIVE RunLen(_, _)
RunLen(s, i) ==
    IF i > Len(s) \/ s[i] = "]" THEN 0 ELSE 1 + RunLen(s, i + 1)

MatchEnd(s, i) ==
    IF i + 1 <= Len(s) /\ s[i] = "[" /\ s[i + 1] = "["
    THEN LET n == RunLen(s, i + 2)
             e == i + 2 + n
         IN  IF n >= 1 /\ e + 1 <= Len(s) /\ s[e] = "]" /\ s[e + 1] = "]"
             THEN e + 1 ELSE 0
    ELSE 0

render_inner_match_nostrip(slug_to_url, inner) ==
    IF to_slug(inner) \in DOMAIN slug_to_url
    THEN LINK_TEMPLATE(slug_to_url[to_slug(inner)], inner)
    ELSE NOLINK_TEMPLATE(inner)

render_inner_match(slug_to_url, inner) ==
    LET text == Strip(inner)
    IN  IF to_slug(text) \in DOMAIN slug_to_url
        THEN LINK_TEMPLATE(slug_to_url[to_slug(text)], text)
        ELSE NOLINK_TEMPLATE(text)

\* re.sub(WIKILINK, render_inner_match, content), scanning from position i
RECURSIVE ReSub(_, _, _)
ReSub(slug_to_url, s, i) ==
    IF i > Len(s) THEN <<>>
    ELSE LET e == MatchEnd(s, i)
         IN  IF e = 0 THEN <<s[i]>> \o ReSub(slug_to_url, s, i + 1)
             ELSE render_inner_match(slug_to_url, SubSeq(s, i + 2, e - 2))
                      \o ReSub(slug_to_url, s, e + 1)

render_doc(slug_to_url, doc) ==
    replace_content(doc, ReSub(slug_to_url, doc["content"], 1))

doc_renderer(ss, base_url, doc) ==
    render_doc(index_slug_to_url(ss, base_url), doc)

\* the inner texts of all matches, in order
RECURSIVE FindAll(_, _)
FindAll(s, i) ==
    IF i > Len(s) THEN <<>>
    ELSE LET e == MatchEnd(s, i)
         IN  IF e = 0 THEN FindAll(s, i + 1)
             ELSE <<SubSeq(s, i + 2, e - 2)>> \o FindAll(s, e + 1)

\* Doc.replace_meta is not among the sources: meta with one key replaced
uplift_wikilinks(doc) ==
    LET inners == FindAll(doc["content"], 1)
        slugs == [i \in 1..Len(inners) |-> to_slug(inners[i])]
    IN  [doc EXCEPT !["meta"] = put(@, "wikilinks", slugs)]

\* {to_slug(stub.title): stub for stub in stubs if "wikilinks" in stub.meta}
Declaring(ss) == SelectSeq(ss, LAMBDA s : "wikilinks" \in DOMAIN s["meta"])

\* The stub kept under a key if the first one with it won.
FirstWith(ss, P(_)) ==
    ss[CHOOSE i \in 1..Len(ss) : P(ss[i]) /\ \A j \in 1..(i - 1) : ~P(ss[j])]

wikilink_index_firstwins(ss) ==
    LET ws == Declaring(ss)
    IN  [slug \in {to_slug(StubTitle(ws[i])) : i \in 1..Len(ws)} |->
            LET hit(s) == to_slug(StubTitle(s)) = slug IN FirstWith(ws, hit)]

wikilink_index(ss) ==
    LET ws == Declaring(ss)
    IN  [slug \in {to_slug(StubTitle(ws[i])) : i \in 1..Len(ws)} |->
            LET hit(s) == to_slug(StubTitle(s)) = slug IN LastWith(ws, hit)]

\* wikilink_index.values(): in the order the keys were first inserted
RECURSIVE FirstSlugs(_, _)
FirstSlugs(ws, done) ==
    IF ws = <<>> THEN <<>>
    ELSE LET k == to_slug(StubTitle(Head(ws)))
         IN  IF k \in done THEN FirstSlugs(Tail(ws), done)
             ELSE <<k>> \o FirstSlugs(Tail(ws), done \cup {k})

index_values(ss) ==
    LET ks == FirstSlugs(Declaring(ss), {})
        wi == wikilink_index(ss)
    IN  [i \in 1..Len(ks) |-> wi[ks[i]]]

\* the inner loop of index_links: the resolved targets of one stub's slugs
RECURSIVE Targets(_, _)
Targets(wi, slugs) ==
    IF slugs = <<>> THEN <<>>
    ELSE (IF Head(slugs) \in DOMAIN wi THEN <<wi[Head(slugs)]>> ELSE <<>>)
             \o Targets(wi, Tail(slugs))

SlugSet(stub) == SetToSeq(Range(stub["meta"]["wikilinks"]))

RECURSIVE LinkFold(_, _, _)
LinkFold(wi, vals, acc) ==
    IF vals = <<>> THEN acc
    ELSE LET stub == Head(vals)
             id == StubIdPath(stub)
             cur == Get(acc, id, <<>>)
         IN  LinkFold(wi, Tail(vals),
                      put(acc, id, cur \o Targets(wi, SlugSet(stub))))

index_links(ss) == LinkFold(wikilink_index(ss), index_values(ss), Empty)

\* the inner loop of index_backlinks: stub is appended under each target
RECURSIVE BackInner(_, _, _, _)
BackInner(wi, stub, slugs, acc) ==
    IF slugs = <<>> THEN acc
    ELSE LET s == Head(slugs)
         IN  IF s \in DOMAIN wi
             THEN LET to_path == StubIdPath(wi[s])
                  IN  BackInner(wi, stub, Tail(slugs),
                          put(acc, to_path, Append(Get(acc, to_path, <<>>), stub)))
             ELSE BackInner(wi, stub, Tail(slugs), acc)

RECURSIVE BackFold(_, _, _)
BackFold(wi, vals, acc) ==
    IF vals = <<>> THEN acc
    ELSE BackFold(wi, Tail(vals),
                  BackInner(wi, Head(vals), SlugSet(Head(vals)), acc))

\* backlinks filed under the linking stub instead of the link's target
index_backlinks_bysource(ss) ==
    LET f == LinkFold(wikilink_index(ss), index_values(ss), Empty)
    IN  [id \in {k \in DOMAIN f : f[k] # <<>>} |->
            [i \in 1..Len(f[id]) |->
                LET hit(t) == StubIdPath(t) = id IN LastWith(ss, hit)]]

index_backlinks(ss) == BackFold(wikilink_index(ss), index_values(ss), Empty)


(***************************************************************************)
(* Inputs of the bounded checks.                                           *)
(***************************************************************************)
Names == <<"a", "b", "c", "d">>

SimplePath(i) == <<Names[i], ".md">>

BaseUrls == {<<"/">>, <<"h", ":", "/", "/", "x">>}

BaseMeta == [summary |-> <<"s">>]

\* a stub as a caller of wikilink.py hands it over
MkStub(i, title, meta) ==
    [id_path |-> SimplePath(i), title |-> title,
     output_path |-> to_nice_path(SimplePath(i)), meta |-> meta]

\* ss is a collection of at most MaxStubs stubs over the given titles and metas
IsStubSeq(ss, Titles, Metas) ==
    \E k \in 0..MaxStubs : \E t \in [1..k -> Titles], m \in [1..k -> Metas] :
        ss = [i \in 1..k |-> MkStub(i, t[i], m[i])]

RenderIdle ==
    /\ r_stubs = <<>> /\ r_base = <<>> /\ r_segs = <<>>
    /\ r_doc = [content |-> <<>>] /\ r_out = [content |-> <<>>] /\ r_done = FALSE

LinksIdle ==
    /\ l_stubs = <<>> /\ l_fwd = Empty /\ l_back = Empty /\ l_done = {}

ReloadIdle ==
    /\ d_doc = [meta |-> BaseMeta] /\ d_prev = [meta |-> BaseMeta]
    /\ d_op = "init" /\ d_reads = 0 /\ d_steps = 0

MainIdle ==
    /\ pc = "idle" /\ config = [base_url |-> <<"/">>] /\ config0 = config
    /\ files = <<>> /\ prog = <<>> /\ hist = <<>> /\ docs = <<>>
    /\ stubs = <<>> /\ idx = [built |-> {}] /\ seen = [x \in {} |-> <<>>]
    /\ synth = <<>> /\ out = [x \in {} |-> <<>>] /\ stats = [written |-> 0]
    /\ copy_err = "none" /\ printed = <<>> /\ status = "running"

(***************************************************************************)
(* SpecRender: doc_renderer(stubs, base_url) applied to one document.  The *)
(* content is put together from segments: plain text (with no doubled      *)
(* bracket) and [[inner]] markers.                                         *)
(***************************************************************************)
RTitles == {<<"A">>, <<"a">>, <<"a", " ", "B">>}

Text(t) == [link |-> FALSE, text |-> t]
Link(t) == [link |-> TRUE, text |-> t]

Segments ==
    {Text(<<"h">>), Text(<<"[", "h", "]">>),
     Link(<<"x">>), Link(<<" ", "A", " ">>), Link(<<"a", " ", "b">>)}

SegText(seg) ==
    IF seg.link THEN <<"[", "[">> \o seg.text \o <<"]", "]">> ELSE seg.text

ContentOf(segs) == Flat([i \in 1..Len(segs) |-> SegText(segs[i])])

RenderInit ==
    /\ IsStubSeq(r_stubs, RTitles, {BaseMeta})
    /\ r_base \in BaseUrls
    /\ \E k \in 0..MaxSegs : r_segs \in [1..k -> Segments]
    /\ r_doc = [title |-> <<"T">>, meta |-> BaseMeta, content |-> ContentOf(r_segs)]
    /\ r_out = r_doc
    /\ r_done = FALSE
    /\ LinksIdle /\ ReloadIdle /\ MainIdle

RenderDoc ==
    /\ ~r_done
    /\ r_out' = doc_renderer(r_stubs, r_base, r_doc)
    /\ r_done' = TRUE
    /\ UNCHANGED <<r_stubs, r_base, r_segs, r_doc, lvars, dvars, mvars>>

RenderNext == RenderDoc

SpecRender == RenderInit /\ [][RenderNext]_vars

(***************************************************************************)
(* SpecLinks: index_links and index_backlinks over one stub collection.    *)
(***************************************************************************)
LTitles == {<<"A">>, <<"a">>, <<"B">>}

LMetas ==
    {BaseMeta} \cup
    {put(BaseMeta, "wikilinks", w) :
        w \in {<<>>, <<<<"a">>>>, <<<<"a">>, <<"b">>>>,
               <<<<"a">>, <<"a">>>>, <<<<"x">>, <<"b">>>>}}

LinksInit ==
    /\ IsStubSeq(l_stubs, LTitles, LMetas)
    /\ l_fwd = Empty /\ l_back = Empty /\ l_done = {}
    /\ RenderIdle /\ ReloadIdle /\ MainIdle

IndexLinksStep ==
    /\ "fwd" \notin l_done
    /\ l_fwd' = index_links(l_stubs)
    /\ l_done' = l_done \cup {"fwd"}
    /\ UNCHANGED <<l_stubs, l_back, rvars, dvars, mvars>>

IndexBacklinksStep ==
    /\ "back" \notin l_done
    /\ l_back' = index_backlinks(l_stubs)
    /\ l_done' = l_done \cup {"back"}
    /\ UNCHANGED <<l_stubs, l_fwd, rvars, dvars, mvars>>

LinksNext == IndexLinksStep \/ IndexBacklinksStep

SpecLinks == LinksInit /\ [][LinksNext]_vars

(***************************************************************************)
(* C2.  The rendered content is the content with every [[inner]] marker    *)
(* replaced, and nothing else touched: by the link template filled with    *)
(* the slug index's URL and the trimmed inner text when the slug of the    *)
(* trimmed inner text is the slug of some stub's title, and by the nolink  *)
(* template filled with the trimmed inner text otherwise.                  *)
(***************************************************************************)
HasTitleSlug(ss, slug) ==
    \E i \in 1..Len(ss) : to_slug(StubTitle(ss[i])) = slug

ExpectedSeg(seg) ==
    IF ~seg.link THEN seg.text
    ELSE LET t == Strip(seg.text)
         IN  IF HasTitleSlug(r_stubs, to_slug(t))
             THEN LINK_TEMPLATE(index_slug_to_url(r_stubs, r_base)[to_slug(t)], t)
             ELSE NOLINK_TEMPLATE(t)

C2_RenderTotalTwoWay ==
    r_done =>
        /\ DOMAIN r_out = DOMAIN r_doc
        /\ \A k \in (DOMAIN r_doc) \ {"content"} : r_out[k] = r_doc[k]
        /\ r_out["content"] =
               Flat([i \in 1..Len(r_segs) |-> ExpectedSeg(r_segs[i])])

\* a rendered document holding a resolved marker, an unresolved one and text
C2_Witness ==
    /\ r_done
    /\ \E i, j, k \in 1..Len(r_segs) :
          /\ r_segs[i].link /\ HasTitleSlug(r_stubs, to_slug(r_segs[i].text))
          /\ r_segs[j].link /\ ~HasTitleSlug(r_stubs, to_slug(r_segs[j].text))
          /\ ~r_segs[k].link

(***************************************************************************)
(* C3.  For every pair of stubs A, B of the collection, B occurs in the    *)
(* forward index under A's id_path exactly as often as A occurs in the     *)
(* backlink index under B's id_path.                                       *)
(***************************************************************************)
C3_BacklinksInverse ==
    l_done = {"fwd", "back"} =>
        \A i, j \in 1..Len(l_stubs) :
            Count(Get(l_fwd, StubIdPath(l_stubs[i]), <<>>), l_stubs[j])
              = Count(Get(l_back, StubIdPath(l_stubs[j]), <<>>), l_stubs[i])

\* both indexes built for a collection with a link A -> B, a self link and
\* two stubs that share a title slug
C3_Witness ==
    /\ l_done = {"fwd", "back"}
    /\ \E i, j \in 1..Len(l_stubs) :
          /\ i # j
          /\ Count(Get(l_fwd, StubIdPath(l_stubs[i]), <<>>), l_stubs[j]) = 1
          /\ Count(Get(l_fwd, StubIdPath(l_stubs[j]), <<>>), l_stubs[j]) = 1
    /\ \E i, j \in 1..Len(l_stubs) :
          i # j /\ to_slug(StubTitle(l_stubs[i])) = to_slug(StubTitle(l_stubs[j]))


(***************************************************************************)
(* C10 as stated.  build_link_index has an entry for every stub declaring  *)
(* meta.wikilinks, listing exactly (each once) the stubs of the collection *)
(* whose title slug is one of its wikilink slugs; build_backlink_index has *)
(* an entry for every stub linked to, listing exactly the stubs linking.   *)
(***************************************************************************)
Declares(s) == "wikilinks" \in DOMAIN s["meta"]

LinksTo(s, t) ==
    Declares(s) /\ to_slug(StubTitle(t)) \in Range(s["meta"]["wikilinks"])

C10_Original ==
    l_done = {"fwd", "back"} =>
        /\ \A i \in 1..Len(l_stubs) : Declares(l_stubs[i]) =>
              /\ StubIdPath(l_stubs[i]) \in DOMAIN l_fwd
              /\ \A j \in 1..Len(l_stubs) :
                    Count(l_fwd[StubIdPath(l_stubs[i])], l_stubs[j])
                      = IF LinksTo(l_stubs[i], l_stubs[j]) THEN 1 ELSE 0
        /\ \A j \in 1..Len(l_stubs) :
              (\E i \in 1..Len(l_stubs) : LinksTo(l_stubs[i], l_stubs[j])) =>
                  /\ StubIdPath(l_stubs[j]) \in DOMAIN l_back
                  /\ \A i \in 1..Len(l_stubs) :
                        Count(l_back[StubIdPath(l_stubs[j])], l_stubs[i])
                          = IF LinksTo(l_stubs[i], l_stubs[j]) THEN 1 ELSE 0

(***************************************************************************)
(* C10 as amended.  The same, for the stubs that are indexed: those that   *)
(* declare meta.wikilinks and are not followed in the collection by        *)
(* another declaring stub with the same title slug.  Only such stubs have  *)
(* entries, and only such stubs are listed.                                *)
(***************************************************************************)
Indexed(i) ==
    /\ Declares(l_stubs[i])
    /\ \A j \in (i + 1)..Len(l_stubs) :
          ~(Declares(l_stubs[j])
              /\ to_slug(StubTitle(l_stubs[j])) = to_slug(StubTitle(l_stubs[i])))

IndexedLink(i, j) == Indexed(i) /\ Indexed(j) /\ LinksTo(l_stubs[i], l_stubs[j])

C10_LinkIndexComplete ==
    l_done = {"fwd", "back"} =>
        /\ \A i \in 1..Len(l_stubs) : Indexed(i) =>
              /\ StubIdPath(l_stubs[i]) \in DOMAIN l_fwd
              /\ \A j \in 1..Len(l_stubs) :
                    Count(l_fwd[StubIdPath(l_stubs[i])], l_stubs[j])
                      = IF IndexedLink(i, j) THEN 1 ELSE 0
        /\ \A j \in 1..Len(l_stubs) :
              (\E i \in 1..Len(l_stubs) : IndexedLink(i, j)) =>
                  /\ StubIdPath(l_stubs[j]) \in DOMAIN l_back
                  /\ \A i \in 1..Len(l_stubs) :
                        Count(l_back[StubIdPath(l_stubs[j])], l_stubs[i])
                          = IF IndexedLink(i, j) THEN 1 ELSE 0

\* both indexes built where a stub links to an indexed stub, names a slug
\* no stub has, and a stub with a repeated title slug is left out
C10_Witness ==
    /\ l_done = {"fwd", "back"}
    /\ \E i, j \in 1..Len(l_stubs) :
          /\ i # j /\ IndexedLink(i, j)
          /\ \E w \in Range(l_stubs[i]["meta"]["wikilinks"]) :
                \A k \in 1..Len(l_stubs) : to_slug(StubTitle(l_stubs[k])) # w
    /\ \E i \in 1..Len(l_stubs) : Declares(l_stubs[i]) /\ ~Indexed(i)


(***************************************************************************)
(* SpecReload: rm_content, reload_content, decorate_smart_items and to_li  *)
(* applied, in any order, to a document.  The document starts as a loaded  *)
(* file, possibly with its content rendered, emptied or removed, its meta  *)
(* changed by an earlier stage, or its input_path missing.                 *)
(***************************************************************************)
ReloadInit ==
    /\ \E n \in Range(Names), c \in {"loaded", "rendered", "empty", "absent"},
          m \in {"loaded", "uplifted"}, ip \in BOOLEAN :
          LET d0 == load(<<n, ".md">>)
              d1 == CASE c = "loaded" -> d0
                      [] c = "rendered" -> put(d0, "content", <<"<p>", "x", "</p>">>)
                      [] c = "empty" -> put(d0, "content", <<>>)
                      [] c = "absent" -> rm_content(d0)
              d2 == IF m = "loaded" THEN d1
                    ELSE [d1 EXCEPT !["meta"] = put(@, "wikilinks", <<>>)]
          IN  d_doc = IF ip THEN d2 ELSE unset(d2, {"input_path"})
    /\ d_prev = d_doc /\ d_op = "init" /\ d_reads = 0 /\ d_steps = 0
    /\ RenderIdle /\ LinksIdle /\ MainIdle

Step(op, doc, reads) ==
    /\ d_steps < MaxOps
    /\ d_doc' = doc /\ d_prev' = d_doc /\ d_op' = op /\ d_reads' = reads
    /\ d_steps' = d_steps + 1
    /\ UNCHANGED <<rvars, lvars, mvars>>

ReloadContent == Step("reload_content", reload_content(d_doc), reload_reads(d_doc))

RmContent == Step("rm_content", rm_content(d_doc), 0)

Decorate ==
    /\ {"input_path", "simple_path"} \subseteq DOMAIN d_doc
    /\ Step("decorate_smart_items", decorate_smart_items(d_doc), 0)

ToLi == Step("to_li", to_li(d_doc), 0)

ReloadNext == ReloadContent \/ RmContent \/ Decorate \/ ToLi

SpecReload == ReloadInit /\ [][ReloadNext]_vars

(***************************************************************************)
(* C5.  reload_content has three outcomes and changes nothing but content: *)
(* content present and not empty: the document is returned as it is and    *)
(* the file is not read; otherwise, with an input_path: the document with  *)
(* content set to the body of its source file; otherwise: the document     *)
(* with content set to the empty text.  reload_content after rm_content    *)
(* restores the file's body, and reload_content is idempotent.             *)
(***************************************************************************)
BodyOf(doc) == FileDefs[doc["input_path"][1]].body

ToLiOfDecorated ==
    d_op = "to_li" /\ LI_KEYS \subseteq DOMAIN d_prev =>
        /\ DOMAIN d_doc = LI_KEYS
        /\ \A k \in LI_KEYS : d_doc[k] = d_prev[k]


(***************************************************************************)
(* Stages of the pipeline whose modules are not among the sources          *)
(* (markdowntools, absolutize, templatetools, permalink, jinjatools, stub, *)
(* paging, rss, sitemap), each by what the specification says it does.     *)
(***************************************************************************)
render_markdown(doc) ==
    IF doc["content"] = <<>> THEN doc
    ELSE replace_content(doc, <<"<p>">> \o doc["content"] \o <<"</p>">>)

\* root-relative references get the base URL in front
RECURSIVE AbsText(_, _)
AbsText(text, base_url) ==
    IF text = <<>> THEN <<>>
    ELSE (IF Head(text) = "href=\"/"
             THEN <<"href=\"">> \o to_url(<<>>, base_url)
             ELSE <<Head(text)>>) \o AbsText(Tail(text), base_url)

absolutize(doc, base_url) == replace_content(doc, AbsText(doc["content"], base_url))

map_templates(doc) ==
    put(doc, "templates",
        IF "template" \in DOMAIN doc["meta"] THEN <<doc["meta"]["template"]>>
        ELSE <<"single.html">>)

\* fnmatch(simple_path, glob) for the globs of the model
GlobMatches(glob, simple_path) == glob[1] = "*" \/ glob = simple_path

\* the first rule whose glob matches decides the output path
RECURSIVE map_permalink(_, _)
map_permalink(doc, rules) ==
    IF rules = <<>> THEN doc
    ELSE IF GlobMatches(Head(rules).glob, doc["simple_path"])
         THEN [doc EXCEPT !["output_path"] =
                  <<Head(rules).dir, "/", doc["simple_path"][1], ".html">>]
         ELSE map_permalink(doc, Tail(rules))

render_template(doc) ==
    replace_content(doc, <<"<html>">> \o doc["content"] \o <<"</html>">>)

\* Stub.load_doc: the full document, read again from the stub's source file
load_doc(stub) == load(stub["simple_path"])

Locs(ss, base_url) ==
    Flat([i \in 1..Len(ss) |-> to_url(ss[i]["output_path"], base_url) \o <<"\n">>])

gen_paging(ss) ==
    IF ss = <<>> THEN <<>>
    ELSE <<[output_path |-> <<"page", "/", "index", ".html">>,
            templates |-> <<"list.html">>, content |-> <<>>, list |-> ss]>>

gen_rss(ss, base_url) ==
    [output_path |-> <<"rss", ".xml">>, templates |-> <<"rss.xml">>,
     content |-> Locs(ss, base_url)]

gen_sitemap(ss, base_url) ==
    [output_path |-> <<"sitemap", ".xml">>, templates |-> <<"sitemap.xml">>,
     content |-> Locs(ss, base_url)]

(***************************************************************************)
(* lettersmith/bin/site.py: one run of main().                             *)
(***************************************************************************)
Pass1 == <<"load", "uplift_wikilinks", "render_markdown", "to_stub">>

Pass2_absolutize_first ==
    <<"load_doc", "absolutize", "render_markdown", "change_ext", "map_templates",
      "map_permalink", "map_wikilinks", "render_template", "write">>

Pass2 ==
    <<"load_doc", "render_markdown", "absolutize", "change_ext", "map_templates",
      "map_permalink", "map_wikilinks", "render_template", "write">>

\* the stages a paging, RSS or sitemap document goes through after the chain
SynthPass == <<"render_template", "write">>

\* Doc.to_stub(doc)
to_stub(doc) == to_li(doc)

PermalinkConfigs ==
    {<<>>, <<[glob |-> <<"*", ".md">>, dir |-> "p"]>>,
     <<[glob |-> <<"b", ".md">>, dir |-> "p"]>>}

MkConfig(base_url, permalinks, with_static) ==
    LET c == [base_url |-> base_url, permalink_templates |-> permalinks,
              theme_path |-> "theme", output_path |-> "public"]
    IN  IF with_static THEN put(c, "static_paths", <<"assets">>) ELSE c

MainInit ==
    /\ pc = "parse_config"
    /\ \E b \in BaseUrls, p \in PermalinkConfigs, sp \in BOOLEAN :
          config = MkConfig(b, p, sp)
    /\ config0 = config
    /\ \E S \in SUBSET Range(Names) :
          /\ Cardinality(S) <= MaxFiles
          /\ files = LET ns == SelectSeq(Names, LAMBDA n : n \in S)
                     IN  [i \in 1..Len(ns) |-> <<ns[i], ".md">>]
    /\ prog = [i \in 1..Len(files) |-> 0]
    /\ hist = [i \in 1..Len(files) |-> <<>>]
    /\ docs = [i \in 1..Len(files) |-> [input_path |-> files[i]]]
    /\ stubs = <<>> /\ idx = Empty /\ seen = Empty /\ synth = <<>>
    /\ out = Empty /\ stats = [written |-> 0]
    /\ copy_err = "none" /\ printed = <<>> /\ status = "running"
    /\ RenderIdle /\ LinksIdle /\ ReloadIdle

Goto(next) == pc' = next

\* lines 28-44: the configuration is read into locals
ParseConfig ==
    /\ pc = "parse_config" /\ Goto("load_data")
    /\ UNCHANGED <<config, config0, files, prog, hist, docs, stubs, idx, seen,
                   synth, out, stats, copy_err, printed, status, rvars, lvars, dvars>>

LoadData ==
    /\ pc = "load_data" /\ Goto("discover")
    /\ UNCHANGED <<config, config0, files, prog, hist, docs, stubs, idx, seen,
                   synth, out, stats, copy_err, printed, status, rvars, lvars, dvars>>

Discover ==
    /\ pc = "discover" /\ Goto("first_pass")
    /\ UNCHANGED <<config, config0, files, prog, hist, docs, stubs, idx, seen,
                   synth, out, stats, copy_err, printed, status, rvars, lvars, dvars>>

\* A stage takes documents in stream order: document i only after i - 1.
Ready(i) == IF i = 1 THEN TRUE ELSE prog[i - 1] > prog[i]

ApplyStage(stage, doc, i) ==
    CASE stage = "load" -> load(files[i])
      [] stage = "uplift_wikilinks" -> uplift_wikilinks(doc)
      [] stage = "render_markdown" -> render_markdown(doc)
      [] stage = "to_stub" -> doc
      [] stage = "load_doc" -> load_doc(stubs[i])
      [] stage = "absolutize" -> absolutize(doc, config["base_url"])
      [] stage = "change_ext" -> change_ext(doc, ".html")
      [] stage = "map_templates" -> map_templates(doc)
      [] stage = "map_permalink" -> map_permalink(doc, config["permalink_templates"])
      [] stage = "map_wikilinks" -> render_doc(idx["wikilink_index"], doc)
      [] stage = "render_template" -> render_template(doc)
      [] stage = "write" -> doc

\* lines 56-63: tuple(...) pulls every document through the first pass
FirstPassStage(i) ==
    /\ pc = "first_pass" /\ prog[i] < Len(Pass1) /\ Ready(i)
    /\ LET stage == Pass1[prog[i] + 1]
           doc == ApplyStage(stage, docs[i], i)
       IN  /\ docs' = [docs EXCEPT ![i] = doc]
           /\ hist' = [hist EXCEPT ![i] = Append(@, stage)]
           /\ stubs' = IF stage = "to_stub" THEN Append(stubs, to_stub(doc)) ELSE stubs
    /\ prog' = [prog EXCEPT ![i] = @ + 1]
    /\ UNCHANGED <<pc, config, config0, files, idx, seen, synth, out, stats,
                   copy_err, printed, status, rvars, lvars, dvars>>

\* tuple() has consumed the whole generator: one stub per content file
Materialized_lazy == TRUE

Materialized == \A i \in 1..Len(files) : prog[i] >= Len(Pass1)

IndexStep(from, key, value, next) ==
    /\ pc = from /\ Goto(next)
    /\ idx' = put(idx, key, value)
    /\ seen' = put(seen, key, stubs)
    /\ UNCHANGED <<config, config0, files, prog, hist, docs, stubs, synth, out,
                   stats, copy_err, printed, status, rvars, lvars, dvars>>

\* line 67
BuildIndex ==
    /\ Materialized
    /\ IndexStep("first_pass", "index",
                 [id \in {StubIdPath(stubs[i]) : i \in 1..Len(stubs)} |->
                     LET hit(s) == StubIdPath(s) = id IN LastWith(stubs, hit)],
                 "wikilink_index")

\* line 69
BuildWikilinkIndex ==
    IndexStep("wikilink_index", "wikilink_index",
              index_slug_to_url(stubs, config["base_url"]), "backlink_index")

\* line 70
BuildBacklinkIndex ==
    IndexStep("backlink_index", "backlink_index", index_backlinks(stubs),
              "taxonomy_index")

\* line 71: no taxonomies are configured
BuildTaxonomyIndex ==
    IndexStep("taxonomy_index", "taxonomy_index", Empty, "paging")

Synth(doc) == [doc |-> doc, prog |-> 0, hist |-> <<>>]

GenStep(from, key, new, next) ==
    /\ pc = from /\ Goto(next)
    /\ synth' = synth \o new
    /\ seen' = put(seen, key, stubs)
    /\ UNCHANGED <<config, config0, files, prog, hist, docs, stubs, idx, out,
                   stats, copy_err, printed, status, rvars, lvars, dvars>>

\* lines 73-78
GenPaging ==
    GenStep("paging", "paging",
            LET ps == gen_paging(stubs) IN [k \in 1..Len(ps) |-> Synth(ps[k])], "rss")

\* lines 80-92
GenRss ==
    GenStep("rss", "rss", <<Synth(gen_rss(stubs, config["base_url"]))>>, "sitemap")

\* line 94
GenSitemap ==
    GenStep("sitemap", "sitemap", <<Synth(gen_sitemap(stubs, config["base_url"]))>>,
            "context")

\* lines 96-123: the lazy second pass is set up and the context assembled
AssembleContext ==
    /\ pc = "context" /\ Goto("write_all")
    /\ idx' = put(idx, "site", Get(config, "site", Empty))
    /\ UNCHANGED <<config, config0, files, prog, hist, docs, stubs, seen, synth,
                   out, stats, copy_err, printed, status, rvars, lvars, dvars>>

Written(doc) ==
    /\ out' = put(out, doc["output_path"], doc["content"])
    /\ stats' = [stats EXCEPT !.written = @ + 1]

\* lines 96-125: Docs.write pulls every document through the second pass
SecondPassStage(i) ==
    /\ pc = "write_all"
    /\ prog[i] >= Len(Pass1) /\ prog[i] < Len(Pass1) + Len(Pass2) /\ Ready(i)
    /\ LET stage == Pass2[prog[i] - Len(Pass1) + 1]
           doc == ApplyStage(stage, docs[i], i)
       IN  /\ docs' = [docs EXCEPT ![i] = doc]
           /\ hist' = [hist EXCEPT ![i] = Append(@, stage)]
           /\ seen' = IF stage = "load_doc" THEN put(seen, "load_doc", stubs) ELSE seen
           /\ IF stage = "write" THEN Written(doc) ELSE UNCHANGED <<out, stats>>
    /\ prog' = [prog EXCEPT ![i] = @ + 1]
    /\ UNCHANGED <<pc, config, config0, files, stubs, idx, synth, copy_err,
                   printed, status, rvars, lvars, dvars>>

\* line 108: the synthetic documents follow the content documents in the chain
SynthReady(k) ==
    IF k > 1 THEN synth[k - 1].prog > synth[k].prog
    ELSE IF files = <<>> THEN TRUE
    ELSE prog[Len(files)] > Len(Pass1) + Len(Pass2) - Len(SynthPass) + synth[k].prog

SynthStage(k) ==
    /\ pc = "write_all" /\ synth[k].prog < Len(SynthPass) /\ SynthReady(k)
    /\ LET stage == SynthPass[synth[k].prog + 1]
           doc == ApplyStage(stage, synth[k].doc, 0)
       IN  /\ synth' = [synth EXCEPT ![k] =
                          [doc |-> doc, prog |-> @.prog + 1, hist |-> Append(@.hist, stage)]]
           /\ IF stage = "write" THEN Written(doc) ELSE UNCHANGED <<out, stats>>
    /\ UNCHANGED <<pc, config, config0, files, prog, hist, docs, stubs, idx, seen,
                   copy_err, printed, status, rvars, lvars, dvars>>

AllWritten ==
    /\ \A i \in 1..Len(files) : prog[i] = Len(Pass1) + Len(Pass2)
    /\ \A k \in 1..Len(synth) : synth[k].prog = Len(SynthPass)

\* lines 128-129: config.get returns the configuration's own list, if it has one
AppendStatic(cfg) ==
    IF "static_paths" \in DOMAIN cfg
    THEN [cfg EXCEPT !["static_paths"] = Append(@, cfg["theme_path"] \o "/static")]
    ELSE cfg

\* line 131: the errors the except clause catches
Suppressed_none(err) == FALSE

Suppressed(err) == err = "CalledProcessError"

CopyErrors == {"ok", "CalledProcessError", "OSError"}

\* lines 127-132
CopyStatic ==
    /\ pc = "write_all" /\ AllWritten
    /\ config' = AppendStatic(config)
    /\ \E err \in CopyErrors :
          /\ copy_err' = err
          /\ IF err = "ok" \/ Suppressed(err)
             THEN Goto("report") /\ status' = status
             ELSE Goto("failed") /\ status' = "failure"
    /\ UNCHANGED <<config0, files, prog, hist, docs, stubs, idx, seen, synth, out,
                   stats, printed, rvars, lvars, dvars>>

DoneLine(n, output_path) ==
    <<"Done! Generated ", n, " files in \"", output_path, "\"">>

\* lines 134-137
Report ==
    /\ pc = "report" /\ Goto("done")
    /\ printed' = Append(printed, DoneLine(stats.written, config["output_path"]))
    /\ status' = "success"
    /\ UNCHANGED <<config, config0, files, prog, hist, docs, stubs, idx, seen,
                   synth, out, stats, copy_err, rvars, lvars, dvars>>

Next ==
    \/ ParseConfig \/ LoadData \/ Discover
    \/ \E i \in 1..Len(files) : FirstPassStage(i)
    \/ BuildIndex \/ BuildWikilinkIndex \/ BuildBacklinkIndex \/ BuildTaxonomyIndex
    \/ GenPaging \/ GenRss \/ GenSitemap \/ AssembleContext
    \/ \E i \in 1..Len(files) : SecondPassStage(i)
    \/ \E k \in 1..Len(synth) : SynthStage(k)
    \/ CopyStatic \/ Report

Spec == MainInit /\ [][Next]_vars


(***************************************************************************)
(* Notions the claims about a run are stated with.                         *)
(***************************************************************************)
IsPrefix(s, t) == Len(s) <= Len(t) /\ s = SubSeq(t, 1, Len(s))

\* the title of the document of content file j, as doc.py reads it
TitleOf(j) == read_title(load(files[j]))

\* the body of content file i holds the marker [[text]]
BodyLinks(i, text) ==
    Occurs(<<"[", "[">> \o text \o <<"]", "]">>, FileDefs[files[i][1]].body)

IsHtmlPath(path) == path # <<>> /\ path[Len(path)] = ".html"

FirstPassDone ==
    /\ \A i \in 1..Len(files) : prog[i] >= Len(Pass1)
    /\ Len(stubs) = Len(files)
    /\ \A i \in 1..Len(stubs) : stubs[i]["simple_path"] = files[i]

Wrote(h) == h # <<>> /\ h[Len(h)] = "write"

NWritten ==
    Cardinality({i \in 1..Len(files) : Wrote(hist[i])})
      + Cardinality({k \in 1..Len(synth) : Wrote(synth[k].hist)})

(***************************************************************************)
(* C1.  When every document has been written: if the body of A holds       *)
(* [[T]] and B has title T, then A and B were written to HTML paths and    *)
(* A's output holds an anchor whose href is to_url of the path B was       *)
(* written to, under the configured base_url.                              *)
(***************************************************************************)
C1_Original ==
    AllWritten /\ pc = "write_all" =>
        \A i, j \in 1..Len(files) : BodyLinks(i, TitleOf(j)) =>
            /\ IsHtmlPath(docs[i]["output_path"])
            /\ IsHtmlPath(docs[j]["output_path"])
            /\ docs[i]["output_path"] \in DOMAIN out
            /\ docs[j]["output_path"] \in DOMAIN out
            /\ Occurs(<<"<a href=\"">>
                        \o to_url(docs[j]["output_path"], config["base_url"])
                        \o <<"\" class=\"wikilink\">">>,
                      out[docs[i]["output_path"]])

\* the same holds of the runs with no permalink rule
C1_WithoutPermalinks == config["permalink_templates"] = <<>> => C1_Original

(***************************************************************************)
(* C4.  Once any index is built, any synthetic document generated, any     *)
(* document reloaded, rendered through its template or written, the first  *)
(* pass has been completed for every content file, there is one stub per   *)
(* content file, and every such step has been given that same collection.  *)
(***************************************************************************)
C4_MaterializationBarrier ==
    (\/ pc \notin {"parse_config", "load_data", "discover", "first_pass"}
     \/ DOMAIN seen # {} \/ DOMAIN idx # {} \/ synth # <<>> \/ DOMAIN out # {}
     \/ \E i \in 1..Len(files) : prog[i] > Len(Pass1))
    => /\ FirstPassDone
       /\ \A k \in DOMAIN seen : seen[k] = stubs

\* the second pass under way for two content files, every index built
C4_Witness ==
    /\ pc = "write_all" /\ Len(files) >= 2
    /\ \E i \in 1..Len(files) : prog[i] > Len(Pass1)
    /\ DOMAIN seen = {"index", "wikilink_index", "backlink_index", "taxonomy_index",
                      "paging", "rss", "sitemap", "load_doc"}

(***************************************************************************)
(* C6 as stated.  If the static copy fails in any way, the failure is      *)
(* suppressed: the run goes on to print the one completion line, with the  *)
(* number of documents written, and ends in success.                       *)
(***************************************************************************)
ReportsSuccess ==
    /\ pc \in {"report", "done"}
    /\ pc = "report" => printed = <<>> /\ status = "running"
    /\ pc = "done" =>
          /\ printed = <<DoneLine(NWritten, "public")>>
          /\ status = "success"

C6_Original == copy_err \in {"CalledProcessError", "OSError"} => ReportsSuccess

(***************************************************************************)
(* C6 as amended.  If the copy mechanism reports a nonzero result (a       *)
(* CalledProcessError), the failure is suppressed: the run goes on to      *)
(* print the one completion line and ends in success.                      *)
(***************************************************************************)
C6_CopyFailureSuppressed == copy_err = "CalledProcessError" => ReportsSuccess

\* a run with content that ended after the copy mechanism failed
C6_Witness ==
    pc = "done" /\ copy_err = "CalledProcessError" /\ Len(files) >= 1

(***************************************************************************)
(* C7.  The configuration has, at every point of the run, the value it     *)
(* was loaded with.                                                        *)
(***************************************************************************)
C7_ConfigImmutable == config = config0

(***************************************************************************)
(* C8.  to_li of a decorated document has exactly the ten whitelisted      *)
(* fields, each with the document's value, and every stub the run builds   *)
(* has exactly these fields.                                               *)
(***************************************************************************)
C8_Original ==
    /\ ToLiOfDecorated
    /\ \A k \in 1..Len(stubs) : DOMAIN stubs[k] = LI_KEYS

(***************************************************************************)
(* C9.  The stages applied to a content document are, in this order and    *)
(* each at most once: load, uplift-wikilinks, render-markdown,             *)
(* reduce-to-stub; then reload, render-markdown, absolutize,               *)
(* rename-extension, assign-templates, apply-permalinks, render-wikilinks, *)
(* render-template, write.  A synthetic document exists only after the     *)
(* first pass and goes through render-template and write only.             *)
(***************************************************************************)
ClaimedOrder ==
    <<"load", "uplift_wikilinks", "render_markdown", "to_stub",
      "load_doc", "render_markdown", "absolutize", "change_ext", "map_templates",
      "map_permalink", "map_wikilinks", "render_template", "write">>

C9_StageOrder ==
    /\ \A i \in 1..Len(files) :
          /\ IsPrefix(hist[i], ClaimedOrder)
          /\ pc = "first_pass" => Len(hist[i]) <= 4
    /\ \A k \in 1..Len(synth) :
          /\ IsPrefix(synth[k].hist, <<"render_template", "write">>)
          /\ synth[k].hist # <<>> => pc \in {"write_all", "report", "done", "failed"}
    /\ synth # <<>> => FirstPassDone

\* a finished run in which two content documents and the paging, RSS and
\* sitemap documents went through all their stages
C9_Witness ==
    /\ pc = "done" /\ Len(files) >= 2 /\ Len(synth) = 3
    /\ \A i \in 1..Len(files) : hist[i] = ClaimedOrder
    /\ \A k \in 1..Len(synth) : synth[k].hist = <<"render_template", "write">>

====
